---- MODULE Spec2Model ----
(***************************************************************************)
(* Model of the generate -> validate -> repair -> execute -> respond loop  *)
(* of Open_Data_QnA's JSON query pipeline:                                 *)
(*   run_json_query_pipeline  (opendataqna_json_modifications_outline.py)  *)
(*   run_generated_code       (execute_json_query.py)                      *)
(*   validate_code            (agents/ValidateJSONQueryAgent.py)           *)
(*   debug_python_code        (agents/DebugJSONQueryAgent.py)              *)
(***************************************************************************)
EXTENDS Integers, Sequences, FiniteSets, TLC

\* ------------------------------------------------------------------ bounds
\* largest value of the debugging_rounds argument that is explored
MaxRounds == 3

\* cap on the call counters (never reached by the code itself, it keeps the
\* state space finite when the loop bound is broken)
CallCap == MaxRounds + 2

\* ---------------------------------------------------------- candidate code
\* A candidate program is described by what the parser and the interpreter do
\* with it:
\*   parses : ast.parse / compile accept the text
\*   top    : outcome of running the module-level statements ("ok" or the
\*            type name of the exception they raise); for a text that does
\*            not parse, the type name of the exception the parser raises
\*   entry  : what the name query_data_for_question is bound to afterwards
\*            ("none": nothing is defined, "other_name": only another
\*            function is defined, "noncallable", "callable")
\*   body   : what calling the entry point does: the returned value or the
\*            type name of the exception it raises ("-" when never called)
Prog(parses, top, entry, body) ==
    [parses |-> parses, top |-> top, entry |-> entry, body |-> body]

\* Python's None and the empty string, as values of a code variable
NoneCode == Prog(FALSE, "-", "-", "None")
EmptyText == Prog(TRUE, "ok", "none", "-")

\* exception types the candidate programs raise
TopFaults == {"ImportError", "KeyError"}
BodyFaults == {"FileNotFoundError", "KeyError", "EmptyDataError",
               "JSONDecodeError", "ZeroDivisionError"}
\* values an entry point returns: a non-empty list, an empty list, a string
\* describing a lookup miss (as in the "patient not found" example)
Values == {"rows", "empty_list", "not_found_string"}

Unparsable == Prog(FALSE, "SyntaxError", "-", "-")
\* a text the parser gives up on with an exception other than SyntaxError
\* (an expression nested too deeply: MemoryError)
ParserGivesUp == Prog(FALSE, "MemoryError", "-", "-")
TopRaises(f) == Prog(TRUE, f, "-", "-")
OtherNameOnly == Prog(TRUE, "ok", "other_name", "-")
NonCallableEntry == Prog(TRUE, "ok", "noncallable", "-")
Returns(v) == Prog(TRUE, "ok", "callable", v)
Raises(f) == Prog(TRUE, "ok", "callable", f)

Programs ==
    {Unparsable, ParserGivesUp, OtherNameOnly, NonCallableEntry}
    \cup {TopRaises(f) : f \in TopFaults}
    \cup {Returns(v) : v \in Values}
    \cup {Raises(f) : f \in BodyFaults}

\* truth value of a code variable (`not generated_code`, `.get("corrected_code")`)
Truthy(code) == code \notin {NoneCode, EmptyText}

\* ------------------------------------------------------ exception classes
Parent(cls) ==
    CASE cls = "FileNotFoundError" -> "OSError"
      [] cls = "OSError" -> "Exception"
      [] cls = "KeyError" -> "LookupError"
      [] cls = "LookupError" -> "Exception"
      [] cls = "JSONDecodeError" -> "ValueError"
      [] cls = "EmptyDataError" -> "ValueError"
      [] cls = "ValueError" -> "Exception"
      [] cls = "ZeroDivisionError" -> "ArithmeticError"
      [] cls = "ArithmeticError" -> "Exception"
      [] cls = "ImportError" -> "Exception"
      [] cls = "SyntaxError" -> "Exception"
      [] cls = "NameError" -> "Exception"
      [] cls = "IndexError" -> "LookupError"
      [] cls = "TypeError" -> "Exception"
      [] cls = "LLMError" -> "Exception"
      [] cls = "MemoryError" -> "Exception"
      [] OTHER -> "BaseException"

RECURSIVE IsInstance(_, _)
IsInstance(fault, cls) ==
    IF fault = cls THEN TRUE
    ELSE IF fault = "BaseException" THEN FALSE
    ELSE IsInstance(Parent(fault), cls)

\* ------------------------------------------------- execute_json_query.py
\* names bound at module level of execute_json_query.py: the imports of
\* lines 1-5 and the function itself (the interpreter resolves a bare name in
\* an except clause against these)
ModuleNames == {"json", "csv", "pandas", "os", "datetime", "run_generated_code"}

\* result dictionaries of run_generated_code; `raised` is the type name of an
\* exception that leaves the function ("none": it returned the dictionary),
\* `error` is <<fixed part of the message, formatted-in part>>, `calls` counts
\* invocations of the entry point
Outcome(success, data, error, details, calls) ==
    [raised |-> "none", success |-> success, data |-> data, error |-> error,
     details |-> details, calls |-> calls]
Propagates(fault, calls) ==
    [raised |-> fault, success |-> FALSE, data |-> "None",
     error |-> <<"None", "">>, details |-> "absent", calls |-> calls]
\* Python's None as value of execution_output
NoOutput ==
    [raised |-> "none", success |-> FALSE, data |-> "None",
     error |-> <<"None", "">>, details |-> "absent", calls |-> -1]

MsgNotCallable == "Function 'query_data_for_question' not found or not callable in generated code."
MsgSyntax == "SyntaxError in generated code"
MsgFileNotFound == "FileNotFoundError"
MsgKey == "KeyError"
MsgEmptyData == "Pandas EmptyDataError"
MsgUnexpected == "An unexpected error occurred during execution of generated code"

\* the except clauses of run_generated_code, tried in order for a fault
\* raised in the try block; a clause whose class expression cannot be
\* evaluated raises NameError out of the function
ExceptClauses(fault, calls) ==
    IF IsInstance(fault, "SyntaxError")
      THEN Outcome(FALSE, "None", <<MsgSyntax, "msg line offset">>, "str(e)", calls)
    ELSE IF IsInstance(fault, "FileNotFoundError")
      THEN Outcome(FALSE, "None", <<MsgFileNotFound, fault>>, "strerror", calls)
    ELSE IF IsInstance(fault, "KeyError")
      THEN Outcome(FALSE, "None", <<MsgKey, fault>>, "Key", calls)
    ELSE IF "pd" \notin ModuleNames
      THEN Propagates("NameError", calls)
    ELSE IF IsInstance(fault, "EmptyDataError")
      THEN Outcome(FALSE, "None", <<MsgEmptyData, fault>>, "str(e)", calls)
    ELSE IF IsInstance(fault, "Exception")
      THEN Outcome(FALSE, "None", <<MsgUnexpected, fault>>, "traceback", calls)
    ELSE Propagates(fault, calls)

\* the test of line 143 without callable()
EntryPointInScope(code) == code.entry \in {"callable", "noncallable"}

\* the test of line 143: the name is in local_scope and bound to a callable
EntryPointFound(code) == code.entry = "callable"

\* the entry point called once to probe it and once more for the result
CallEntryPointTwice(code) ==
    CASE code.entry = "callable" /\ code.body \in Values ->
            [raises |-> "none", value |-> code.body, calls |-> 2]
      [] code.entry = "callable" /\ code.body \notin Values ->
            [raises |-> code.body, value |-> "None", calls |-> 1]
      [] code.entry = "noncallable" ->
            [raises |-> "TypeError", value |-> "None", calls |-> 0]
      [] OTHER ->
            [raises |-> "KeyError", value |-> "None", calls |-> 0]

\* line 146, local_scope[function_name_to_call](): the value returned, or the
\* exception of the lookup, of the call or of the function's body
CallEntryPoint(code) ==
    CASE code.entry = "callable" /\ code.body \in Values ->
            [raises |-> "none", value |-> code.body, calls |-> 1]
      [] code.entry = "callable" /\ code.body \notin Values ->
            [raises |-> code.body, value |-> "None", calls |-> 1]
      [] code.entry = "noncallable" ->
            [raises |-> "TypeError", value |-> "None", calls |-> 0]
      [] OTHER ->
            [raises |-> "KeyError", value |-> "None", calls |-> 0]

\* a success return that takes an empty result for a failure
SuccessOutcomeUnlessEmpty(value, calls) ==
    IF value = "empty_list"
      THEN Outcome(FALSE, "None", <<"No data", "">>, "absent", calls)
      ELSE Outcome(TRUE, value, <<"None", "">>, "absent", calls)

\* line 147: the dictionary returned when the entry point returned
SuccessOutcome(value, calls) ==
    Outcome(TRUE, value, <<"None", "">>, "absent", calls)

\* the exception that running the text raises, "none" if it runs through
FaultRaised(code) ==
    IF ~code.parses THEN code.top
    ELSE IF code.top # "ok" THEN code.top
    ELSE IF code.entry = "callable" /\ code.body \notin Values THEN code.body
    ELSE "none"

\* run_generated_code(python_code_string, ...)
run_generated_code(code) ==
    IF ~code.parses THEN ExceptClauses(code.top, 0)
    ELSE IF code.top # "ok" THEN ExceptClauses(code.top, 0)
    ELSE IF EntryPointFound(code)
      THEN LET call == CallEntryPoint(code) IN
           IF call.raises = "none"
             THEN SuccessOutcome(call.value, call.calls)
             ELSE ExceptClauses(call.raises, call.calls)
    ELSE Outcome(FALSE, "None", <<MsgNotCallable, "">>, "absent", 0)

\* ------------------------------------------ agents/ValidateJSONQueryAgent
\* texts the LLM answers with, as sequences of characters
TextVALID == <<"V", "A", "L", "I", "D">>
TextINVALID == <<"I", "N", "V", "A", "L", "I", "D", " ", "-", " ", "x">>
TextInvalidLower == <<" ", "i", "n", "v", "a", "l", "i", "d", "\n">>
TextNotInvalid == <<"N", "O", "T", " ", "I", "N", "V", "A", "L", "I", "D">>
TextEmpty == <<>>
LLMTexts == {TextVALID, TextINVALID, TextInvalidLower, TextNotInvalid, TextEmpty}

\* outcome of one LLM call: it raises, or it returns a text
LLMRaises == [raises |-> TRUE, text |-> <<>>]
LLMSays(t) == [raises |-> FALSE, text |-> t]
LLMReplies == {LLMRaises} \cup {LLMSays(t) : t \in LLMTexts}

IsSpace(c) == c \in {" ", "\n", "\t"}

\* str.upper(), one character
UpperChar(c) ==
    CASE c = "a" -> "A" [] c = "d" -> "D" [] c = "i" -> "I" [] c = "l" -> "L"
      [] c = "n" -> "N" [] c = "o" -> "O" [] c = "t" -> "T" [] c = "v" -> "V"
      [] c = "x" -> "X" [] OTHER -> c
Upper(t) == [i \in 1..Len(t) |-> UpperChar(t[i])]

\* str.strip()
RECURSIVE LStrip(_)
LStrip(t) == IF t # <<>> /\ IsSpace(Head(t)) THEN LStrip(Tail(t)) ELSE t
RECURSIVE RStrip(_)
RStrip(t) ==
    IF t # <<>> /\ IsSpace(t[Len(t)]) THEN RStrip(SubSeq(t, 1, Len(t) - 1)) ELSE t
Strip(t) == RStrip(LStrip(t))

\* str.startswith(prefix)
StartsWith(t, prefix) ==
    Len(t) >= Len(prefix) /\ SubSeq(t, 1, Len(prefix)) = prefix

MsgSyntaxLineOffset == "SyntaxError: msg (line, offset)"
MsgAstParse == "Error during ast.parse: str(e)"

\* a syntax check that lets a text through when the parser gave up on it
validate_python_syntaxLenient(code) ==
    IF code.parses \/ ~IsInstance(code.top, "SyntaxError")
      THEN [is_valid |-> TRUE, error_message |-> "None"]
      ELSE [is_valid |-> FALSE, error_message |-> MsgSyntaxLineOffset]

\* _validate_python_syntax: ast.parse accepts the text, raises SyntaxError or
\* raises another exception (ast.parse only parses, no statement of the text
\* runs)
validate_python_syntax(code) ==
    IF code.parses
      THEN [is_valid |-> TRUE, error_message |-> "None"]
    ELSE IF IsInstance(code.top, "SyntaxError")
      THEN [is_valid |-> FALSE, error_message |-> MsgSyntaxLineOffset]
    ELSE [is_valid |-> FALSE, error_message |-> MsgAstParse]

\* verdict dictionaries of validate_code; llm_calls counts the collaborator
\* calls made while computing the verdict
Verdict(is_valid, error_type, error_message, llm_check, llm_calls) ==
    [is_valid |-> is_valid, error_type |-> error_type,
     error_message |-> error_message, llm_check |-> llm_check,
     llm_calls |-> llm_calls]

\* the flag test without upper()
LLMFlagsCodeCaseSensitive(llm_check_text) ==
    StartsWith(llm_check_text, <<"I", "N", "V", "A", "L", "I", "D">>)

\* the advisory answer flags the code (line 143)
LLMFlagsCode(llm_check_text) ==
    StartsWith(Upper(llm_check_text), <<"I", "N", "V", "A", "L", "I", "D">>)

\* validate_code asking the LLM before it looks at the syntax check
validate_codeLLMFirst(code, use_llm_setting, llm) ==
    LET syntax_check_result == validate_python_syntax(code)
        calls == IF use_llm_setting THEN 1 ELSE 0
    IN
    IF use_llm_setting /\ ~llm.raises /\ LLMFlagsCode(Strip(llm.text))
      THEN Verdict(FALSE, "llm_identified_issue",
                   "LLM supplementary check flagged potential issue",
                   Strip(llm.text), calls)
    ELSE IF ~syntax_check_result.is_valid
      THEN Verdict(FALSE, "syntax_error", syntax_check_result.error_message,
                   <<"Not performed due to syntax error.">>, calls)
    ELSE IF ~use_llm_setting
      THEN Verdict(TRUE, "absent", "None", <<"Not performed.">>, calls)
    ELSE IF llm.raises
      THEN Verdict(TRUE, "absent", "None", <<"Error: e">>, calls)
    ELSE Verdict(TRUE, "absent", "None", Strip(llm.text), calls)

\* validate_code treating a failed LLM call as a flagged program
validate_codeFailClosed(code, use_llm_setting, llm) ==
    LET syntax_check_result == validate_python_syntax(code) IN
    IF ~syntax_check_result.is_valid
      THEN Verdict(FALSE, "syntax_error", syntax_check_result.error_message,
                   <<"Not performed due to syntax error.">>, 0)
    ELSE IF ~use_llm_setting
      THEN Verdict(TRUE, "absent", "None", <<"Not performed.">>, 0)
    ELSE IF llm.raises
      THEN Verdict(FALSE, "llm_identified_issue",
                   "LLM supplementary check flagged potential issue",
                   <<"Error: e">>, 1)
    ELSE IF LLMFlagsCode(Strip(llm.text))
      THEN Verdict(FALSE, "llm_identified_issue",
                   "LLM supplementary check flagged potential issue",
                   Strip(llm.text), 1)
    ELSE Verdict(TRUE, "absent", "None", Strip(llm.text), 1)

\* validate_code asking the LLM whatever the setting says
validate_codeIgnoringSetting(code, use_llm_setting, llm) ==
    LET syntax_check_result == validate_python_syntax(code) IN
    IF ~syntax_check_result.is_valid
      THEN Verdict(FALSE, "syntax_error", syntax_check_result.error_message,
                   <<"Not performed due to syntax error.">>, 0)
    ELSE IF llm.raises
      THEN Verdict(TRUE, "absent", "None", <<"Error: e">>, 1)
    ELSE IF LLMFlagsCode(Strip(llm.text))
      THEN Verdict(FALSE, "llm_identified_issue",
                   "LLM supplementary check flagged potential issue",
                   Strip(llm.text), 1)
    ELSE Verdict(TRUE, "absent", "None", Strip(llm.text), 1)

\* validate_code(python_code, ...) of a validator whose
\* use_llm_for_supplementary_validation field is use_llm, when the LLM call
\* (if one is made) behaves as llm
validate_code(code, use_llm, llm) ==
    LET syntax_check_result == validate_python_syntax(code) IN
    IF ~syntax_check_result.is_valid
      THEN Verdict(FALSE, "syntax_error", syntax_check_result.error_message,
                   <<"Not performed due to syntax error.">>, 0)
    ELSE IF ~use_llm
      THEN Verdict(TRUE, "absent", "None", <<"Not performed.">>, 0)
    ELSE IF llm.raises
      THEN Verdict(TRUE, "absent", "None", <<"Error: e">>, 1)
    ELSE IF LLMFlagsCode(Strip(llm.text))
      THEN Verdict(FALSE, "llm_identified_issue",
                   "LLM supplementary check flagged potential issue",
                   Strip(llm.text), 1)
    ELSE Verdict(TRUE, "absent", "None", Strip(llm.text), 1)

\* -------------------------------------------- agents/DebugJSONQueryAgent
\* shapes of the LLM's answer to a debugging prompt: how the code is fenced
\*   plain        the answer is the code
\*   python       ```python\n<code>\n```
\*   python_nonl  ```python not followed by a newline
\*   bare         the answer starts with ```\n<code>\n```
\*   bare_mid     prose, then a ``` fence that is not a python fence
Fences == {"plain", "python", "python_nonl", "bare", "bare_mid"}
LLMCodeRaises == [raises |-> TRUE, fence |-> "plain", code |-> NoneCode]
LLMCode(f, c) == [raises |-> FALSE, fence |-> f, code |-> c]
LLMCodeReplies ==
    {LLMCodeRaises}
    \cup {LLMCode(f, c) : f \in Fences, c \in Programs \cup {EmptyText}}

\* the post-processing of lines 194-199: the text kept as corrected code, or
\* the IndexError of split(...)[1]
ExtractCode(reply) ==
    CASE reply.fence \in {"plain", "python", "bare"} ->
            [raises |-> FALSE, code |-> reply.code]
      [] reply.fence = "python_nonl" -> [raises |-> TRUE, code |-> NoneCode]
      [] reply.fence = "bare_mid" ->
            \* the whole answer, prose and fence included, is kept
            [raises |-> FALSE, code |-> Unparsable]

\* debug_python_code(...): the returned dictionary
debug_python_code(reply) ==
    IF reply.raises \/ ExtractCode(reply).raises
      THEN [status |-> "error", corrected_code |-> NoneCode]
      ELSE [status |-> "success", corrected_code |-> ExtractCode(reply).code]

\* ------------------------------------------- agents/BuildJSONQueryAgent
\* generate_python_query_code(...): same call and post-processing
generate_python_query_code(reply) ==
    IF reply.raises \/ ExtractCode(reply).raises
      THEN [status |-> "error", python_code |-> NoneCode]
      ELSE [status |-> "success", python_code |-> ExtractCode(reply).code]

\* ------------------------------------------------ agents/ResponseAgent
\* truth value of the details text (None and '' are false)
DetailsPresent(details) == details \notin {"absent", ""}

\* line 85: the details go into the error prompt when they are present and
\* shorter than 500 characters (short: len(error_details) < 500)
DetailsForwarded(details, short) == DetailsPresent(details) /\ short

\* lines 97-109: the retrieved data as text
DataString(data) ==
    CASE data = "None" -> "No data was returned from the query."
      [] data = "rows" -> "json.dumps(rows)"
      [] data = "empty_list" -> "[]"
      [] OTHER -> data

\* prompts and texts of the responder: what they are made of
Prompt(template, error, details, data) ==
    [template |-> template, error |-> error, details |-> details, data |-> data]
NoPrompt == Prompt("none", <<"None", "">>, "-", "-")
Text(kind, error, details, data) ==
    [kind |-> kind, error |-> error, details |-> details, data |-> data]
NoText == Text("none", <<"None", "">>, "-", "-")

\* ResponseAgent.run(user_question, execution_result): the prompt it sends
\* and the text it returns; llm_ok: the LLM call returns (its text is made
\* from the prompt), otherwise the templated fallback is returned
responder_run(execution_result, short, llm_ok) ==
    IF ~execution_result.success
      THEN LET prompt ==
                 Prompt("error", execution_result.error,
                        IF DetailsForwarded(execution_result.details, short)
                          THEN execution_result.details
                          ELSE "No further specific details.",
                        "-")
           IN [prompt |-> prompt,
               text |-> IF llm_ok
                          THEN Text("explanation", prompt.error, prompt.details, "-")
                          ELSE Text("fallback", execution_result.error, "-", "-")]
      ELSE LET prompt ==
                 Prompt("answer", <<"None", "">>, "-",
                        DataString(execution_result.data))
           IN [prompt |-> prompt,
               text |-> IF llm_ok
                          THEN Text("answer", prompt.error, "-", prompt.data)
                          ELSE Text("fallback_data", prompt.error, "-", prompt.data)]

\* the error dictionaries the pipeline builds for the responder
\* (lines 199, 241, 249)
ErrorDict(error) ==
    Outcome(FALSE, "None", <<error, "">>, "pipeline message", 0)

\* ------------------------------------------------------- dbconnectors
\* keyword names get_connector reads
ArgNames ==
    {"project_id", "region", "opendataqna_dataset", "audit_log_table_name",
     "instance_name", "database_name", "database_user", "database_password",
     "firestore_database", "file_path", "json_data", "sheet_id_or_url",
     "credentials_path"}
\* values of json_data: a JSON string of a list, a string that is not JSON,
\* a list, an empty list, a dict of one key holding a list, of one key
\* holding an empty list, any other dict, an integer
JsonDataValues ==
    {"str_list", "str_invalid", "list", "empty_list", "dict_one_list",
     "dict_one_empty_list", "dict_other", "int"}
\* source_type texts and what str.lower() makes of them
SourceTypeTexts ==
    {"bigquery", "BigQuery", "postgresql", "POSTGRESQL", "firestore", "json",
     "JSON", "googlesheet", "mbox", "Mbox", "unknown_db"}
Lower(text) ==
    CASE text = "BigQuery" -> "bigquery"
      [] text = "POSTGRESQL" -> "postgresql"
      [] text = "JSON" -> "json"
      [] text = "Mbox" -> "mbox"
      [] OTHER -> text

\* kwargs as a function on ArgNames: "absent" when the key is not passed
Present(kw) == {k \in ArgNames : kw[k] # "absent"}
\* kwargs.get(k)
Get(kw, k) == IF kw[k] = "absent" THEN "None" ELSE kw[k]
\* [k for k in required_args if kwargs.get(k) is None]
MissingArgs(kw, required_args) == {k \in required_args : Get(kw, k) = "None"}

\* what a call gives: an exception, or an instance with its fields
NoConnector ==
    [raised |-> "none", cls |-> "none", connectorType |-> "none",
     file_path |-> "None", json_data_content |-> "None", missing |-> {},
     constructing |-> FALSE]
\* raised by get_connector itself
RaisedByFactory(fault, missing) ==
    [NoConnector EXCEPT !.raised = fault, !.missing = missing]
\* raised by the call of a connector class
RaisedByClass(fault, cls) ==
    [NoConnector EXCEPT !.raised = fault, !.cls = cls, !.constructing = TRUE]
Instance(cls, connectorType, file_path, json_data_content) ==
    [NoConnector EXCEPT !.cls = cls, !.connectorType = connectorType,
                        !.file_path = file_path,
                        !.json_data_content = json_data_content,
                        !.constructing = TRUE]

\* core.py lines 15-22: the keyword parameters of DBConnector.__init__
DBConnectorParams ==
    {"project_id", "region", "instance_name", "database_name",
     "database_user", "database_password", "dataset_name"}
\* JsonConnector.py lines 40-46: the keywords of the super().__init__ call
JsonSuperKeywords == DBConnectorParams \cup {"file_path", "json_data"}

\* json.loads of a json_data string
JsonLoads(text) == IF text = "str_list" THEN "list" ELSE "JSONDecodeError"

\* JsonConnector.__init__(file_path, json_data, ...)
JsonConnector_init(file_path, json_data) ==
    IF ~(JsonSuperKeywords \subseteq DBConnectorParams)
      THEN RaisedByClass("TypeError", "JsonConnector")
    ELSE IF file_path # "None"
      THEN Instance("JsonConnector", "JSON", file_path, "None")
    ELSE IF json_data # "None"
      THEN IF json_data \in {"str_list", "str_invalid"}
             THEN IF JsonLoads(json_data) = "JSONDecodeError"
                    THEN RaisedByClass("ValueError", "JsonConnector")
                    ELSE Instance("JsonConnector", "JSON", "None",
                                  JsonLoads(json_data))
           ELSE IF json_data = "int"
             THEN RaisedByClass("ValueError", "JsonConnector")
           ELSE Instance("JsonConnector", "JSON", "None", json_data)
    ELSE RaisedByClass("ValueError", "JsonConnector")

\* a call f(k1=..., ..., **kwargs): a key given twice is a TypeError
CallWithStarKwargs(cls, connectorType, keywords, kw) ==
    IF keywords \cap Present(kw) # {}
      THEN RaisedByClass("TypeError", cls)
      ELSE Instance(cls, connectorType, Get(kw, "file_path"), "None")

\* the argument lists of lines 33, 44, 57, 81, 97
RequiredArgs(source_type_lower) ==
    CASE source_type_lower = "bigquery" ->
            {"project_id", "region", "opendataqna_dataset", "audit_log_table_name"}
      [] source_type_lower = "postgresql" ->
            {"project_id", "region", "instance_name", "database_name",
             "database_user", "database_password"}
      [] source_type_lower = "firestore" -> {"project_id", "firestore_database"}
      [] source_type_lower = "googlesheet" -> {"sheet_id_or_url", "credentials_path"}
      [] source_type_lower = "mbox" -> {"file_path"}
      [] OTHER -> {}

\* get_connector(source_type, **kwargs)
get_connector(st, kw) ==
    LET source_type_lower == Lower(st)
        missing_args == MissingArgs(kw, RequiredArgs(source_type_lower))
    IN
    CASE source_type_lower = "bigquery" ->
            IF missing_args # {} THEN RaisedByFactory("ValueError", missing_args)
            ELSE Instance("BQConnector", "BigQuery", "None", "None")
      [] source_type_lower = "postgresql" ->
            IF missing_args # {} THEN RaisedByFactory("ValueError", missing_args)
            ELSE Instance("PgConnector", "PostgreSQL", "None", "None")
      [] source_type_lower = "firestore" ->
            IF missing_args # {} THEN RaisedByFactory("ValueError", missing_args)
            ELSE Instance("FirestoreConnector", "Firestore", "None", "None")
      [] source_type_lower = "json" ->
            IF ~({"file_path", "json_data"} \cap Present(kw) # {})
              THEN RaisedByFactory("ValueError", {"file_path", "json_data"})
              ELSE JsonConnector_init(Get(kw, "file_path"), Get(kw, "json_data"))
      [] source_type_lower = "googlesheet" ->
            IF missing_args # {} THEN RaisedByFactory("ValueError", missing_args)
            ELSE CallWithStarKwargs("GoogleSheetConnector", "GoogleSheet",
                    {"sheet_id_or_url", "credentials_path", "worksheet_name",
                     "project_id", "database_name"}, kw)
      [] source_type_lower = "mbox" ->
            IF missing_args # {} THEN RaisedByFactory("ValueError", missing_args)
            ELSE CallWithStarKwargs("MboxConnector", "Mbox",
                    {"file_path", "project_id", "database_name"}, kw)
      [] OTHER -> RaisedByFactory("ValueError", {})

\* what the file at file_path holds
FileStates ==
    {"missing", "undecodable", "list", "empty_list", "dict_one_list",
     "dict_one_empty_list", "dict_other", "int"}
\* what retrieve_df gives
NoTable == [raised |-> "none", table |-> "none"]
Table(t) == [raised |-> "none", table |-> t]
RetrieveRaises(fault) == [raised |-> fault, table |-> "none"]

\* JsonConnector.py lines 92-109: the parsed data made into a table
Normalise(data_to_process) ==
    CASE data_to_process = "list" -> Table("rows_of_list")
      [] data_to_process = "empty_list" -> Table("empty")
      [] data_to_process = "dict_one_list" -> Table("rows_of_list")
      [] data_to_process = "dict_one_empty_list" -> Table("empty")
      [] data_to_process = "dict_other" -> Table("one_row")
      [] OTHER -> RetrieveRaises("ValueError")

\* connector.retrieve_df(query), for the file state `file`
retrieve_df(self, file) ==
    CASE self.cls = "JsonConnector" ->
            IF self.file_path # "None"
              THEN IF file = "missing" THEN RetrieveRaises("FileNotFoundError")
                   ELSE IF file = "undecodable" THEN RetrieveRaises("ValueError")
                   ELSE Normalise(file)
            ELSE IF self.json_data_content # "None"
              THEN Normalise(self.json_data_content)
            ELSE RetrieveRaises("ValueError")
      [] self.cls = "FirestoreConnector" -> RetrieveRaises("NotImplementedError")
      [] OTHER -> Table("query_result")

\* ----------------------------- opendataqna_json_modifications_outline.py
VARIABLES
    pc,                      \* position in run_json_query_pipeline
    run_debugger,            \* argument
    debugging_rounds,        \* argument
    use_llm,                 \* the validator's supplementary-check setting
    current_code_to_execute, \* local
    validation_passed,       \* local
    debug_attempt,           \* local
    validator_result,        \* local: the last verdict
    execution_output,        \* local
    error_response_result,   \* local: 'error' of the dictionary for the responder
    natural_language_response,
    returned,                \* how the call ended
    n_validate,              \* calls of validate_code so far
    n_debug,                 \* calls of debug_python_code so far
    n_execute,               \* calls of run_generated_code so far
    n_respond,               \* calls of responder.run so far
    validated_ok,            \* texts that received is_valid = true in this run
    cand_validated,          \* the current candidate was handed to validate_code
    executed,                \* texts handed to run_generated_code, in order
    repair_failed,           \* a repair call gave no usable code
    first_candidate,         \* the builder's candidate
    first_repaired,          \* the candidate of the first successful repair
    n_entry_calls,           \* invocations of the entry point so far
    responder_arg,           \* the dictionary handed to responder.run
    responder_short,         \* len(details) < 500 held for that dictionary
    responder_prompt,        \* the prompt responder.run sent
    first_verdict            \* the verdict of the first validate_code call


\* the run_generated_code calls of a process, one after the other
VARIABLES
    sandbox_pc,         \* position of the current run_generated_code call
    n_calls,            \* run_generated_code calls begun so far
    restricted_globals, \* the globals dictionary of the current call
    json_loads,         \* what the attribute loads of the json module is bound to
    steps,              \* what the entry point has done so far in this call
    reached,            \* what the entry point has reached in this call
    retrieved,          \* the value the entry point holds for its return
    sandbox_result      \* what the call returned

sandbox_vars == <<sandbox_pc, n_calls, restricted_globals, json_loads, steps,
                  reached, retrieved, sandbox_result>>
\* a get_connector call and the use of what it returns
VARIABLES
    conn_pc,            \* position of the caller
    source_type,        \* argument of get_connector
    kwargs,             \* keyword arguments of get_connector
    connector,          \* what get_connector returned or raised
    file_state,         \* what the file at file_path holds
    df                  \* what retrieve_df returned or raised

connector_vars == <<conn_pc, source_type, kwargs, connector, file_state, df>>

\* a Pipeline.run call (pipeline.py)
VARIABLES
    sql_pc,              \* position in run / _generate_sql
    LOGGING,             \* utilities setting
    USE_SESSION_HISTORY, \* utilities setting
    EXAMPLES,            \* utilities setting
    run_debugger_sql,    \* argument run_debugger of run
    execute_final_sql,   \* argument of run
    session_history,     \* local of _generate_sql
    audit_text,          \* local of _generate_sql ("unbound" before line 133)
    final_sql,           \* local of _generate_sql
    invalid_response,    \* local
    debugger_return,     \* what start_debugger returned
    fault_step,          \* the step of the try block that raised
    chat_logged,         \* log_chat wrote the session entry
    results_ran,         \* _get_results was called
    response_ran,        \* _get_response was called
    run_outcome          \* how run ended

sql_vars == <<sql_pc, LOGGING, USE_SESSION_HISTORY, EXAMPLES, run_debugger_sql,
              execute_final_sql, session_history, audit_text, final_sql,
              invalid_response, debugger_return, fault_step, chat_logged,
              results_ran, response_ran, run_outcome>>

\* the state outside run_json_query_pipeline
others == <<sandbox_vars, connector_vars, sql_vars>>

pipeline_vars ==
        <<pc, run_debugger, debugging_rounds, use_llm, current_code_to_execute,
          validation_passed, debug_attempt, validator_result, execution_output,
          error_response_result, natural_language_response, returned,
          n_validate, n_debug, n_execute, n_respond, validated_ok,
          cand_validated, executed, repair_failed, first_candidate,
          first_repaired, n_entry_calls, responder_arg, responder_short,
          responder_prompt, first_verdict>>

vars == <<pipeline_vars, others>>
\* the state outside run_generated_code
outside_sandbox == <<pipeline_vars, connector_vars, sql_vars>>
\* the state outside the dbconnectors package
outside_connectors == <<pipeline_vars, sandbox_vars, sql_vars>>
\* the state outside Pipeline.run
outside_sql == <<pipeline_vars, sandbox_vars, connector_vars>>

\* start_debugger's SQL and its invalid flag
DebuggerResult(sql, invalid) == [sql |-> sql, invalid |-> invalid]
NoDebuggerResult == DebuggerResult("none", FALSE)
\* how run ends: the first component of the returned triple, or the fault
StillRunning == [kind |-> "running", final_sql |-> "none", fault |-> "none"]
RunReturned(sql) == [kind |-> "returned", final_sql |-> sql, fault |-> "none"]
RunRaised(fault) == [kind |-> "raised", final_sql |-> "none", fault |-> fault]

\* the locals and the effects of a Pipeline.run call before it begins
SqlFresh ==
    /\ session_history = "unbound"
    /\ audit_text = "unbound"
    /\ final_sql = "unbound"
    /\ invalid_response = "unbound"
    /\ debugger_return = NoDebuggerResult
    /\ fault_step = "none"
    /\ chat_logged = FALSE
    /\ results_ran = FALSE
    /\ response_ran = FALSE
    /\ run_outcome = StillRunning

\* no Pipeline.run call is followed
SqlParked ==
    /\ sql_pc = "parked"
    /\ LOGGING = FALSE
    /\ USE_SESSION_HISTORY = FALSE
    /\ EXAMPLES = FALSE
    /\ run_debugger_sql = FALSE
    /\ execute_final_sql = FALSE
    /\ SqlFresh


args == <<run_debugger, debugging_rounds, use_llm>>
counters == <<n_validate, n_debug, n_execute, n_respond>>
firsts == <<first_candidate, first_repaired>>
responder_vars == <<responder_arg, responder_short, responder_prompt>>
\* what only validate_code and the entry point change
ghosts == <<n_entry_calls, first_verdict>>

NoVerdict == Verdict(FALSE, "absent", "None", <<>>, 0)
NotReturned ==
    [kind |-> "running", fault |-> "none", generated_code |-> NoneCode,
     execution_result |-> NoOutput]
\* the dictionary of the return statements
Returned(code, result) ==
    [kind |-> "returned", fault |-> "none", generated_code |-> code,
     execution_result |-> result]
\* an exception leaves run_json_query_pipeline
Raised(fault) ==
    [kind |-> "raised", fault |-> fault, generated_code |-> NoneCode,
     execution_result |-> NoOutput]

\* no run_generated_code call is followed on its own
SandboxParked ==
    /\ sandbox_pc = "parked"
    /\ n_calls = 0
    /\ restricted_globals = [builtins |-> {}, names |-> {}]
    /\ json_loads = "original"
    /\ steps = <<>>
    /\ reached = {}
    /\ retrieved = "None"
    /\ sandbox_result = NoOutput

\* no get_connector call is followed
ConnectorParked ==
    /\ conn_pc = "parked"
    /\ source_type = "json"
    /\ kwargs = [k \in ArgNames |-> "absent"]
    /\ connector = NoConnector
    /\ file_state = "missing"
    /\ df = NoTable

Init ==
    /\ SandboxParked
    /\ ConnectorParked
    /\ SqlParked
    /\ pc = "build"
    /\ run_debugger \in BOOLEAN
    /\ debugging_rounds \in 0..MaxRounds
    /\ use_llm \in BOOLEAN
    /\ current_code_to_execute = NoneCode
    /\ validation_passed = FALSE
    /\ debug_attempt = 0
    /\ validator_result = NoVerdict
    /\ execution_output = NoOutput
    /\ error_response_result = "none"
    /\ natural_language_response = NoText
    /\ returned = NotReturned
    /\ n_validate = 0
    /\ n_debug = 0
    /\ n_execute = 0
    /\ n_respond = 0
    /\ validated_ok = {}
    /\ cand_validated = FALSE
    /\ executed = <<>>
    /\ repair_failed = FALSE
    /\ first_candidate = NoneCode
    /\ first_repaired = NoneCode
    /\ n_entry_calls = 0
    /\ responder_arg = NoOutput
    /\ responder_short = FALSE
    /\ responder_prompt = NoPrompt
    /\ first_verdict = NoVerdict

\* line 196: the builder gave usable code
BuilderProvidedCode(builder_result) ==
    builder_result.status = "success" /\ Truthy(builder_result.python_code)

\* the loop condition with an off-by-one
LoopContinuesInclusive(attempt, rounds) == attempt <= rounds

\* line 209: the loop condition
LoopContinues(attempt, rounds) == attempt < rounds

\* the verdict test looking at syntax errors only
VerdictPassesUnlessSyntaxError(verdict) == verdict.error_type # "syntax_error"

\* the verdict test with the sense of is_valid inverted
VerdictPassesInverted(verdict) == ~verdict.is_valid

\* line 217: the verdict lets the candidate through
VerdictPasses(verdict) == verdict.is_valid

\* the debugger test without the check of corrected_code
DebuggerReportedSuccess(debugger_result) == debugger_result.status = "success"

\* line 235: the debugger gave usable code
DebuggerProvidedCode(debugger_result) ==
    debugger_result.status = "success" /\ Truthy(debugger_result.corrected_code)

\* lines 186-205: the builder is called; on failure the responder explains
\* and the run returns, otherwise the locals of lines 203-205 are set and the
\* run goes to the loop (run_debugger) or straight to execution
Build ==
    /\ pc = "build"
    /\ \E reply \in LLMCodeReplies :
         LET builder_result == generate_python_query_code(reply) IN
         IF BuilderProvidedCode(builder_result)
           THEN /\ current_code_to_execute' = builder_result.python_code
                /\ first_candidate' = builder_result.python_code
                /\ validation_passed' = ~run_debugger
                /\ pc' = IF run_debugger THEN "loop" ELSE "execute"
                /\ UNCHANGED error_response_result
           ELSE /\ error_response_result' = "CodeGenerationError"
                /\ pc' = "respond_error"
                /\ UNCHANGED <<current_code_to_execute, validation_passed,
                               first_candidate>>
    /\ debug_attempt' = 0
    /\ cand_validated' = FALSE
    /\ UNCHANGED <<others, args, validator_result, execution_output,
                   natural_language_response, returned, counters,
                   validated_ok, executed, repair_failed, first_repaired,
                   ghosts, responder_vars>>

\* lines 209 and 246-251: the while test, and what follows the loop when it
\* ends without a passing verdict
LoopTest ==
    /\ pc = "loop"
    /\ IF LoopContinues(debug_attempt, debugging_rounds)
         THEN /\ pc' = "validate"
              /\ UNCHANGED error_response_result
         ELSE IF ~validation_passed
           THEN /\ error_response_result' = "ValidationFailedAfterDebug"
                /\ pc' = "respond_error"
           ELSE /\ pc' = "execute"
                /\ UNCHANGED error_response_result
    /\ UNCHANGED <<others, args, current_code_to_execute, validation_passed,
                   debug_attempt, validator_result, execution_output,
                   natural_language_response, returned, counters,
                   validated_ok, cand_validated, executed, repair_failed,
                   firsts, ghosts, responder_vars>>

\* lines 211-224: validate_code is awaited; a passing verdict breaks out of
\* the loop (and line 246 falls through to execution), a failing one leads to
\* the debugger
Validate ==
    /\ pc = "validate"
    /\ n_validate < CallCap
    /\ \E llm \in LLMReplies :
         LET verdict == validate_code(current_code_to_execute, use_llm, llm) IN
         /\ validator_result' = verdict
         /\ first_verdict' = IF n_validate = 0 THEN verdict ELSE first_verdict
         /\ validated_ok' = IF verdict.is_valid
                              THEN validated_ok \cup {current_code_to_execute}
                              ELSE validated_ok
         /\ IF VerdictPasses(verdict)
              THEN /\ validation_passed' = TRUE
                   /\ pc' = "execute"
              ELSE /\ pc' = "debug"
                   /\ UNCHANGED validation_passed
    /\ n_validate' = n_validate + 1
    /\ cand_validated' = TRUE
    /\ UNCHANGED <<others, args, current_code_to_execute, debug_attempt,
                   execution_output, error_response_result,
                   natural_language_response, returned, n_debug, n_execute,
                   n_respond, executed, repair_failed, firsts,
                   n_entry_calls, responder_vars>>

\* lines 226-244: debug_python_code is awaited; usable code replaces the
\* candidate and the attempt is counted, otherwise the responder explains
\* and the run returns
Debug ==
    /\ pc = "debug"
    /\ n_debug < CallCap
    /\ \E reply \in LLMCodeReplies :
         LET debugger_result == debug_python_code(reply) IN
         /\ repair_failed' =
               (debugger_result.status # "success"
                \/ ~Truthy(debugger_result.corrected_code))
         /\ IF DebuggerProvidedCode(debugger_result)
              THEN /\ current_code_to_execute' = debugger_result.corrected_code
                   /\ first_repaired' =
                         IF n_debug = 0 THEN debugger_result.corrected_code
                         ELSE first_repaired
                   /\ cand_validated' = FALSE
                   /\ debug_attempt' = debug_attempt + 1
                   /\ pc' = "loop"
                   /\ UNCHANGED error_response_result
              ELSE /\ error_response_result' = "DebuggingFailed"
                   /\ pc' = "respond_error"
                   /\ UNCHANGED <<current_code_to_execute, cand_validated,
                                  debug_attempt, first_repaired>>
    /\ n_debug' = n_debug + 1
    /\ UNCHANGED <<others, args, validation_passed, validator_result, execution_output,
                   natural_language_response, returned, n_validate, n_execute,
                   n_respond, validated_ok, executed, first_candidate,
                   ghosts, responder_vars>>

\* lines 201, 242-243, 250-251: the responder is awaited with the error
\* dictionary and the run returns with execution_result None
RespondError ==
    /\ pc = "respond_error"
    /\ \E short \in BOOLEAN, llm_ok \in BOOLEAN :
         LET reply == responder_run(ErrorDict(error_response_result), short, llm_ok) IN
         /\ responder_arg' = ErrorDict(error_response_result)
         /\ responder_short' = short
         /\ responder_prompt' = reply.prompt
         /\ natural_language_response' = reply.text
    /\ n_respond' = n_respond + 1
    /\ returned' = Returned(current_code_to_execute, NoOutput)
    /\ pc' = "done"
    /\ UNCHANGED <<others, args, current_code_to_execute, validation_passed,
                   debug_attempt, validator_result, execution_output,
                   error_response_result, n_validate, n_debug, n_execute,
                   validated_ok, cand_validated, executed, repair_failed,
                   firsts, ghosts>>

\* lines 257-268: run_generated_code is called (no try around it: what it
\* raises leaves the pipeline)
Execute ==
    /\ pc = "execute"
    /\ n_execute < CallCap
    /\ IF validation_passed
         THEN LET out == run_generated_code(current_code_to_execute) IN
              /\ n_execute' = n_execute + 1
              /\ n_entry_calls' = n_entry_calls + out.calls
              /\ executed' = Append(executed, current_code_to_execute)
              /\ IF out.raised # "none"
                   THEN /\ returned' = Raised(out.raised)
                        /\ pc' = "done"
                        /\ UNCHANGED execution_output
                   ELSE /\ execution_output' = out
                        /\ pc' = "respond"
                        /\ UNCHANGED returned
         ELSE /\ execution_output' =
                    Outcome(FALSE, "None",
                            <<"PreExecutionValidationFailed", "">>,
                            "Code validation failed before execution attempt.", 0)
              /\ pc' = "respond"
              /\ UNCHANGED <<n_execute, n_entry_calls, executed, returned>>
    /\ UNCHANGED <<others, args, current_code_to_execute, validation_passed,
                   debug_attempt, validator_result, error_response_result,
                   natural_language_response, n_validate, n_debug, n_respond,
                   validated_ok, cand_validated, repair_failed, firsts,
                   responder_vars, first_verdict>>

\* lines 272-293: the responder is awaited with execution_output and the run
\* returns
Respond ==
    /\ pc = "respond"
    /\ \E short \in BOOLEAN, llm_ok \in BOOLEAN :
         LET reply == responder_run(execution_output, short, llm_ok) IN
         /\ responder_arg' = execution_output
         /\ responder_short' = short
         /\ responder_prompt' = reply.prompt
         /\ natural_language_response' = reply.text
    /\ n_respond' = n_respond + 1
    /\ returned' = Returned(current_code_to_execute, execution_output)
    /\ pc' = "done"
    /\ UNCHANGED <<others, args, current_code_to_execute, validation_passed,
                   debug_attempt, validator_result, execution_output,
                   error_response_result, n_validate, n_debug, n_execute,
                   validated_ok, cand_validated, executed, repair_failed,
                   firsts, ghosts>>

Next ==
    \/ Build
    \/ LoopTest
    \/ Validate
    \/ Debug
    \/ RespondError
    \/ Execute
    \/ Respond

Spec == Init /\ [][Next]_vars

\* the run is one sequential control flow: a step that can be taken is taken
FairSpec == Spec /\ WF_vars(Next)

\* the call comes to an end (it returns or an exception leaves it)
Terminates == <>(pc = "done")

\* terminal results of the loop, read off the returned dictionary
Succeeded == returned.kind = "returned" /\ returned.execution_result.success
Exhausted == returned.kind = "returned" /\ ~returned.execution_result.success

\* ------------------------------- execute_json_query.py: inside the sandbox
MaxOps == 2
MaxExecutions == 2

\* lines 53-74: the names of the '__builtins__' dictionary
RestrictedBuiltins ==
    {"print", "list", "dict", "str", "int", "float", "len", "sorted", "any",
     "all", "range", "zip", "enumerate", "isinstance", "Exception",
     "ValueError", "TypeError", "KeyError", "FileNotFoundError",
     "StopIteration", "datetime"}
\* lines 115-117: the three path bindings
InjectedBindings ==
    {"MASTER_LINKS_CSV_FILE_PATH", "ALL_EMAILS_CSV_FILE_PATH",
     "JSON_BASE_DIR_PATH"}
\* lines 75-76: the module objects bound in the globals
InjectedModules == {"json", "pd"}
\* lines 52-118: the dictionary literal, built anew by every call
FreshGlobals ==
    [builtins |-> RestrictedBuiltins,
     names |-> InjectedModules \cup InjectedBindings]

\* one thing the entry point does: through the name via it does `does` to `on`
Op(via, does, on) == [via |-> via, does |-> does, on |-> on]
\* what a candidate program may try: pd.read_csv / json.codecs.open on a
\* bound path, on another path; DataFrame.to_csv / codecs.open(p, 'w');
\* pd.read_csv(url) / json.codecs.builtins.__import__('socket');
\* json.codecs.sys.modules['os'].system(...); json.loads = f; json.loads(s);
\* open(p); import os; while True: pass
SandboxOps ==
    {Op("pd", "read", b) : b \in InjectedBindings}
    \cup {Op(m, "read", "other_path") : m \in InjectedModules}
    \cup {Op(m, "write", "other_path") : m \in InjectedModules}
    \cup {Op(m, "connect", "network") : m \in InjectedModules}
    \cup {Op("json", "call", "host_process"),
          Op("json", "rebind", "json.loads"),
          Op("json", "loads", "text"),
          Op("open", "read", "other_path"),
          Op("__import__", "import", "os"),
          Op("while", "loop", "-")}

\* name lookup in the globals of exec: the globals, then '__builtins__'
\* (a loop statement needs no name)
Resolves(op, globals) ==
    op.via \in globals.names \cup globals.builtins \cup {"while"}
\* what a failed lookup raises (import without __import__: ImportError)
LookupFault(op) == IF op.via = "__import__" THEN "ImportError" ELSE "NameError"
\* the operations that touch something outside the interpreter
TouchesResource(op) == op.does \in {"read", "write", "connect", "call"}

\* a run_generated_code call can begin
SandboxIdle == sandbox_pc \in {"idle", "returned"}

\* lines 52-121: a call builds restricted_globals and local_scope
SandboxCall ==
    /\ SandboxIdle
    /\ n_calls < MaxExecutions
    /\ n_calls' = n_calls + 1
    /\ restricted_globals' = FreshGlobals
    /\ steps' = <<>>
    /\ reached' = {}
    /\ retrieved' = "None"
    /\ sandbox_result' = NoOutput
    /\ sandbox_pc' = "running"
    /\ UNCHANGED <<outside_sandbox, json_loads>>

\* line 146: the entry point runs, one operation at a time, in the caller's
\* thread: a failed lookup raises into the except clauses, a loop keeps the
\* call from ever returning, anything else takes effect
SandboxStep ==
    /\ sandbox_pc = "running"
    /\ Len(steps) < MaxOps
    /\ \E op \in SandboxOps :
         /\ steps' = Append(steps, op)
         /\ IF ~Resolves(op, restricted_globals)
              THEN /\ sandbox_result' = ExceptClauses(LookupFault(op), 1)
                   /\ sandbox_pc' = "returned"
                   /\ UNCHANGED <<reached, json_loads, retrieved>>
            ELSE IF op.does = "loop"
              THEN /\ sandbox_pc' = "blocked"
                   /\ UNCHANGED <<reached, json_loads, retrieved, sandbox_result>>
            ELSE /\ reached' = IF TouchesResource(op)
                                 THEN reached \cup {[does |-> op.does, on |-> op.on]}
                                 ELSE reached
                 /\ json_loads' = IF op.does = "rebind" THEN "rebound" ELSE json_loads
                 /\ retrieved' = IF op.does = "loads"
                                   THEN (IF json_loads = "original"
                                           THEN "rows" ELSE "rebound_value")
                                   ELSE retrieved
                 /\ UNCHANGED <<sandbox_pc, sandbox_result>>
    /\ UNCHANGED <<outside_sandbox, n_calls, restricted_globals>>

\* lines 146-147: the entry point returns and the call returns its value
SandboxReturn ==
    /\ sandbox_pc = "running"
    /\ sandbox_result' = SuccessOutcome(retrieved, 1)
    /\ sandbox_pc' = "returned"
    /\ UNCHANGED <<outside_sandbox, n_calls, restricted_globals, json_loads,
                   steps, reached, retrieved>>

\* run_json_query_pipeline is not followed
PipelineParked ==
    /\ pc = "parked"
    /\ run_debugger = FALSE
    /\ debugging_rounds = 0
    /\ use_llm = FALSE
    /\ current_code_to_execute = NoneCode
    /\ validation_passed = FALSE
    /\ debug_attempt = 0
    /\ validator_result = NoVerdict
    /\ execution_output = NoOutput
    /\ error_response_result = "none"
    /\ natural_language_response = NoText
    /\ returned = NotReturned
    /\ n_validate = 0
    /\ n_debug = 0
    /\ n_execute = 0
    /\ n_respond = 0
    /\ validated_ok = {}
    /\ cand_validated = FALSE
    /\ executed = <<>>
    /\ repair_failed = FALSE
    /\ first_candidate = NoneCode
    /\ first_repaired = NoneCode
    /\ n_entry_calls = 0
    /\ responder_arg = NoOutput
    /\ responder_short = FALSE
    /\ responder_prompt = NoPrompt
    /\ first_verdict = NoVerdict

SandboxInit ==
    /\ PipelineParked
    /\ ConnectorParked
    /\ SqlParked
    /\ sandbox_pc = "idle"
    /\ n_calls = 0
    /\ restricted_globals = [builtins |-> {}, names |-> {}]
    /\ json_loads = "original"
    /\ steps = <<>>
    /\ reached = {}
    /\ retrieved = "None"
    /\ sandbox_result = NoOutput

SandboxNext ==
    \/ SandboxCall
    \/ SandboxStep
    \/ SandboxReturn

SandboxSpec == SandboxInit /\ [][SandboxNext]_vars

\* ---------------------------------------------- dbconnectors: the caller
\* the values a keyword of source type t takes in the calls followed
ArgValues(k) ==
    IF k = "json_data" THEN {"absent", "None"} \cup JsonDataValues
    ELSE {"absent", "None", "given"}
\* the keywords varied for a source type
VariedArgs(source_type_lower) ==
    IF source_type_lower = "json" THEN {"file_path", "json_data"}
    ELSE IF source_type_lower = "unknown_db" THEN RequiredArgs("firestore")
    ELSE RequiredArgs(source_type_lower)
\* the keyword arguments of the calls followed for a source type
KwargsFor(t) ==
    {[k \in ArgNames |-> IF k \in VariedArgs(Lower(t)) THEN f[k] ELSE "absent"] :
        f \in {g \in [VariedArgs(Lower(t)) -> {"absent", "None", "given"} \cup JsonDataValues] :
                 \A k \in VariedArgs(Lower(t)) : g[k] \in ArgValues(k)}}

ConnectorInit ==
    /\ PipelineParked
    /\ SandboxParked
    /\ SqlParked
    /\ conn_pc = "start"
    /\ source_type \in SourceTypeTexts
    /\ kwargs \in KwargsFor(source_type)
    /\ connector = NoConnector
    /\ file_state \in (IF Lower(source_type) = "json" THEN FileStates ELSE {"missing"})
    /\ df = NoTable

\* connector = get_connector(source_type, **kwargs)
GetConnector ==
    /\ conn_pc = "start"
    /\ connector' = get_connector(source_type, kwargs)
    /\ conn_pc' = "got"
    /\ UNCHANGED <<outside_connectors, source_type, kwargs, file_state, df>>

\* df = connector.retrieve_df(), on the connector get_connector returned
RetrieveDf ==
    /\ conn_pc = "got"
    /\ connector.raised = "none"
    /\ df' = retrieve_df(connector, file_state)
    /\ conn_pc' = "retrieved"
    /\ UNCHANGED <<outside_connectors, source_type, kwargs, connector, file_state>>

ConnectorNext ==
    \/ GetConnector
    \/ RetrieveDf

ConnectorSpec == ConnectorInit /\ [][ConnectorNext]_vars

\* ------------------------------------------------ pipeline.py: Pipeline
sql_config == <<LOGGING, USE_SESSION_HISTORY, EXAMPLES, run_debugger_sql,
                execute_final_sql>>
sql_effects == <<chat_logged, results_ran, response_ran, run_outcome>>

\* the debugger consulted and its SQL dropped
FinalSqlKeepsGenerated(generated_sql, debugger_sql) == generated_sql

\* line 175: final_sql is the first component of what start_debugger returns
FinalSqlAfterDebugger(generated_sql, debugger_sql) == debugger_sql

SqlInit ==
    /\ PipelineParked
    /\ SandboxParked
    /\ ConnectorParked
    /\ sql_pc = "history"
    /\ LOGGING \in BOOLEAN
    /\ USE_SESSION_HISTORY \in BOOLEAN
    /\ EXAMPLES \in BOOLEAN
    /\ run_debugger_sql \in BOOLEAN
    /\ execute_final_sql \in BOOLEAN
    /\ SqlFresh

\* line 121: the session history is fetched
FetchHistory ==
    /\ sql_pc = "history"
    /\ \E out \in {"raises", "empty", "nonempty"} :
         IF out = "raises"
           THEN /\ fault_step' = "history"
                /\ sql_pc' = "except"
                /\ UNCHANGED session_history
           ELSE /\ session_history' = out
                /\ sql_pc' = IF out = "nonempty" THEN "rewrite" ELSE "source"
                /\ UNCHANGED fault_step
    /\ UNCHANGED <<outside_sql, sql_config, sql_effects, audit_text, final_sql,
                   invalid_response, debugger_return>>

\* line 125: the question is rewritten from the history
RewriteQuestion ==
    /\ sql_pc = "rewrite"
    /\ \E raises \in BOOLEAN :
         IF raises
           THEN fault_step' = "rewrite" /\ sql_pc' = "except"
           ELSE sql_pc' = "source" /\ UNCHANGED fault_step
    /\ UNCHANGED <<outside_sql, sql_config, sql_effects, session_history,
                   audit_text, final_sql, invalid_response, debugger_return>>

\* lines 129-137: the locals are set and the source type is looked up
\* (_get_source_type catches its own faults and reports them as invalid)
SourceType ==
    /\ sql_pc = "source"
    /\ audit_text' = "bound"
    /\ final_sql' = "Not Generated Yet"
    /\ \E src_invalid \in BOOLEAN :
         IF src_invalid
           THEN fault_step' = "source" /\ sql_pc' = "except"
           ELSE sql_pc' = "embed" /\ UNCHANGED fault_step
    /\ UNCHANGED <<outside_sql, sql_config, sql_effects, session_history,
                   invalid_response, debugger_return>>

\* line 143: the question is embedded
Embed ==
    /\ sql_pc = "embed"
    /\ \E raises \in BOOLEAN :
         IF raises
           THEN fault_step' = "embed" /\ sql_pc' = "except"
           ELSE sql_pc' = "exact" /\ UNCHANGED fault_step
    /\ UNCHANGED <<outside_sql, sql_config, sql_effects, session_history,
                   audit_text, final_sql, invalid_response, debugger_return>>

\* lines 147-153: the cache of known questions is asked when EXAMPLES is set
ExactMatch ==
    /\ sql_pc = "exact"
    /\ \E out \in (IF EXAMPLES THEN {"raises", "match", "None"} ELSE {"None"}) :
         CASE out = "raises" ->
                /\ fault_step' = "exact"
                /\ sql_pc' = "except"
                /\ UNCHANGED <<final_sql, invalid_response>>
           [] out = "match" ->
                /\ final_sql' = "exact_sql_history"
                /\ invalid_response' = FALSE
                /\ sql_pc' = "audit"
                /\ UNCHANGED fault_step
           [] out = "None" ->
                /\ sql_pc' = "similar"
                /\ UNCHANGED <<final_sql, invalid_response, fault_step>>
    /\ UNCHANGED <<outside_sql, sql_config, sql_effects, session_history,
                   audit_text, debugger_return>>

\* lines 156-163 and 180-183: tables and columns are retrieved
SimilarMatches ==
    /\ sql_pc = "similar"
    /\ \E out \in {"raises", "found", "nothing"} :
         CASE out = "raises" ->
                /\ fault_step' = "similar"
                /\ sql_pc' = "except"
                /\ UNCHANGED invalid_response
           [] out = "found" ->
                /\ sql_pc' = "build"
                /\ UNCHANGED <<invalid_response, fault_step>>
           [] out = "nothing" ->
                /\ invalid_response' = TRUE
                /\ sql_pc' = "audit"
                /\ UNCHANGED fault_step
    /\ UNCHANGED <<outside_sql, sql_config, sql_effects, session_history,
                   audit_text, final_sql, debugger_return>>

\* lines 164-173: the builder is asked for SQL
BuildSql ==
    /\ sql_pc = "build"
    /\ \E out \in {"raises", "generated_sql", "unrelated_answer"} :
         CASE out = "raises" ->
                /\ fault_step' = "build"
                /\ sql_pc' = "except"
                /\ UNCHANGED <<final_sql, invalid_response>>
           [] out = "unrelated_answer" ->
                /\ invalid_response' = TRUE
                /\ final_sql' = "unrelated question text"
                /\ sql_pc' = "audit"
                /\ UNCHANGED fault_step
           [] out = "generated_sql" ->
                /\ invalid_response' = FALSE
                /\ final_sql' = "generated_sql"
                /\ sql_pc' = IF run_debugger_sql THEN "debug" ELSE "audit"
                /\ UNCHANGED fault_step
    /\ UNCHANGED <<outside_sql, sql_config, sql_effects, session_history,
                   audit_text, debugger_return>>

\* lines 174-178: start_debugger is called
StartDebugger ==
    /\ sql_pc = "debug"
    /\ \/ /\ fault_step' = "debug"
          /\ sql_pc' = "except"
          /\ UNCHANGED <<final_sql, invalid_response, debugger_return>>
       \/ \E sql \in {"generated_sql", "debugged_sql"}, invalid \in BOOLEAN :
            /\ debugger_return' = DebuggerResult(sql, invalid)
            /\ final_sql' = FinalSqlAfterDebugger(final_sql, sql)
            /\ invalid_response' = invalid
            /\ sql_pc' = "audit"
            /\ UNCHANGED fault_step
    /\ UNCHANGED <<outside_sql, sql_config, sql_effects, session_history,
                   audit_text>>

\* lines 185-186: the audit entry is written when LOGGING is set
AuditEntry ==
    /\ sql_pc = "audit"
    /\ \E raises \in (IF LOGGING THEN BOOLEAN ELSE {FALSE}) :
         IF raises
           THEN fault_step' = "audit" /\ sql_pc' = "except"
           ELSE sql_pc' = "log_chat" /\ UNCHANGED fault_step
    /\ UNCHANGED <<outside_sql, sql_config, sql_effects, session_history,
                   audit_text, final_sql, invalid_response, debugger_return>>

\* lines 188-195: the except block; `audit_text +=` reads the local, and the
\* audit entry is written again when LOGGING is set
Handler ==
    /\ sql_pc = "except"
    /\ IF audit_text = "unbound"
         THEN /\ run_outcome' = RunRaised("UnboundLocalError")
              /\ sql_pc' = "done"
              /\ UNCHANGED <<final_sql, invalid_response>>
         ELSE /\ final_sql' = "error text"
              /\ invalid_response' = TRUE
              /\ \E raises \in (IF LOGGING THEN BOOLEAN ELSE {FALSE}) :
                   IF raises
                     THEN run_outcome' = RunRaised("Exception") /\ sql_pc' = "done"
                     ELSE sql_pc' = "log_chat" /\ UNCHANGED run_outcome
    /\ UNCHANGED <<outside_sql, sql_config, chat_logged, results_ran,
                   response_ran, session_history, audit_text, debugger_return,
                   fault_step>>

\* lines 197-201 and 94, 104-108: the chat entry is logged, _generate_sql
\* returns, and run returns at once when the response is invalid
LogChat ==
    /\ sql_pc = "log_chat"
    /\ \E raises \in (IF USE_SESSION_HISTORY /\ invalid_response = FALSE
                        THEN BOOLEAN ELSE {FALSE}) :
         IF raises
           THEN /\ run_outcome' = RunRaised("Exception")
                /\ sql_pc' = "done"
                /\ UNCHANGED chat_logged
           ELSE /\ chat_logged' = (USE_SESSION_HISTORY /\ invalid_response = FALSE)
                /\ IF invalid_response = FALSE
                     THEN sql_pc' = "results" /\ UNCHANGED run_outcome
                     ELSE run_outcome' = RunReturned(final_sql) /\ sql_pc' = "done"
    /\ UNCHANGED <<outside_sql, sql_config, results_ran, response_ran,
                   session_history, audit_text, final_sql, invalid_response,
                   debugger_return, fault_step>>

\* lines 95-103 and 221-244: _get_results (it catches its own faults)
GetResults ==
    /\ sql_pc = "results"
    /\ results_ran' = TRUE
    /\ \E out \in {"table", "raises"} :
         /\ invalid_response' = ~(execute_final_sql /\ out = "table")
         /\ IF execute_final_sql /\ out = "table"
              THEN sql_pc' = "response" /\ UNCHANGED run_outcome
              ELSE run_outcome' = RunReturned(final_sql) /\ sql_pc' = "done"
    /\ UNCHANGED <<outside_sql, sql_config, chat_logged, response_ran,
                   session_history, audit_text, final_sql, debugger_return,
                   fault_step>>

\* lines 100-101, 108 and 246-260: _get_response (it catches its own faults)
GetResponse ==
    /\ sql_pc = "response"
    /\ response_ran' = TRUE
    /\ \E raises \in BOOLEAN : invalid_response' = raises
    /\ run_outcome' = RunReturned(final_sql)
    /\ sql_pc' = "done"
    /\ UNCHANGED <<outside_sql, sql_config, chat_logged, results_ran,
                   session_history, audit_text, final_sql, debugger_return,
                   fault_step>>

SqlNext ==
    \/ FetchHistory
    \/ RewriteQuestion
    \/ SourceType
    \/ Embed
    \/ ExactMatch
    \/ SimilarMatches
    \/ BuildSql
    \/ StartDebugger
    \/ AuditEntry
    \/ Handler
    \/ LogChat
    \/ GetResults
    \/ GetResponse

SqlSpec == SqlInit /\ [][SqlNext]_vars

\* ================================================================ claims
\* the builder gave a first candidate
HasCandidate == first_candidate # NoneCode

\* C1: the number of debug_python_code invocations of a run never exceeds
\* debugging_rounds.
C1_RepairsBounded == n_debug <= debugging_rounds

\* C1 witness: the whole budget was spent on repairs that did not help
C1_Witness ==
    pc = "done" /\ debugging_rounds = MaxRounds /\ n_debug = debugging_rounds

C3_Claim ==
    (run_debugger /\ pc = "done" /\ HasCandidate) => cand_validated

\* C4: a run does not end on a failed execution while repair budget is left:
\* after run_generated_code returns success = false with fewer than
\* debugging_rounds repairs made, the repair collaborator is invoked.
C4_Claim ==
    (/\ run_debugger
     /\ pc = "done"
     /\ returned.kind = "returned"
     /\ Len(executed) >= 1
     /\ ~returned.execution_result.success
     /\ ~repair_failed)
    => n_debug = debugging_rounds

\* C5: with debugging_rounds = 0 and the debugger enabled a run makes exactly
\* one validate_code call on the first candidate, exactly one
\* run_generated_code call if that verdict is valid, and no repair call.
C5_Claim ==
    (run_debugger /\ debugging_rounds = 0 /\ pc = "done" /\ HasCandidate)
    => /\ n_validate = 1
       /\ n_debug = 0
       /\ n_execute = (IF validator_result.is_valid THEN 1 ELSE 0)

\* C6: for debugging_rounds >= 1, if the first candidate fails validation
\* with a syntax error and the first repair returns a candidate that is
\* syntactically valid and executes successfully, the run ends Succeeded
\* after exactly one repair invocation (validator as the pipeline builds it,
\* without the supplementary check).
C6_Claim ==
    (/\ run_debugger
     /\ ~use_llm
     /\ debugging_rounds >= 1
     /\ pc = "done"
     /\ HasCandidate
     /\ ~first_candidate.parses
     /\ first_repaired # NoneCode
     /\ first_repaired.parses
     /\ FaultRaised(first_repaired) = "none"
     /\ first_repaired.entry = "callable")
    => (Succeeded /\ n_debug = 1)

\* C7: once the repair collaborator has failed (status other than success, or
\* no corrected code) no validate_code, debug_python_code or
\* run_generated_code call is made any more in the run, whatever budget is
\* left, and execution_result is None.
C7_RepairFailureIsTerminal ==
    [][/\ repair_failed =>
            /\ n_validate' = n_validate
            /\ n_debug' = n_debug
            /\ n_execute' = n_execute
            /\ pc' = "done"
       /\ repair_failed' =>
            /\ execution_output' = NoOutput
            /\ returned'.kind # "raised"
            /\ returned'.execution_result = NoOutput]_vars

\* C7 witness: the run ended on a failed repair with budget left
C7_Witness ==
    /\ repair_failed
    /\ pc = "done"
    /\ n_debug < debugging_rounds
    /\ returned.kind = "returned"

\* C8: the run ends in exactly one terminal result, Succeeded or Exhausted.
C8_Claim == pc = "done" => (Succeeded \/ Exhausted)

\* C9: run_generated_code never raises; a text whose execution raises a fault
\* other than a syntax error, file-not-found, missing-key or empty-data
\* fault yields success = false, data = None and the generic error whose
\* message names the fault's type, with the trace in details.
C9_Claim ==
    \A i \in 1..Len(executed) :
        LET fault == FaultRaised(executed[i]) IN
        /\ returned.kind # "raised"
        /\ (/\ fault # "none"
            /\ ~IsInstance(fault, "SyntaxError")
            /\ ~IsInstance(fault, "FileNotFoundError")
            /\ ~IsInstance(fault, "KeyError")
            /\ ~IsInstance(fault, "EmptyDataError"))
           => /\ execution_output.success = FALSE
              /\ execution_output.data = "None"
              /\ execution_output.error = <<MsgUnexpected, fault>>
              /\ execution_output.details = "traceback"

\* the result for a text without a callable entry point
MissingEntryPoint ==
    /\ returned.kind # "raised"
    /\ execution_output.success = FALSE
    /\ execution_output.data = "None"
    /\ execution_output.error = <<MsgNotCallable, "">>
    /\ execution_output.calls = 0

\* C10 as stated: for every text that does not define a callable named
\* query_data_for_question, run_generated_code returns the MissingEntryPoint
\* failure with data = None, invokes no entry point and raises nothing.
C10_Original ==
    \A i \in 1..Len(executed) :
        executed[i].entry # "callable" => MissingEntryPoint

\* C10 amended: for every text whose module-level statements compile and run
\* to their end without raising and that does not leave a callable named
\* query_data_for_question, run_generated_code returns the MissingEntryPoint
\* failure with data = None, invokes no entry point and raises nothing.
C10_MissingEntryPoint ==
    \A i \in 1..Len(executed) :
        (/\ executed[i].parses
         /\ executed[i].top = "ok"
         /\ executed[i].entry # "callable")
        => MissingEntryPoint

\* C10 witness: a text binding the name to a non-callable was executed
C10_Witness ==
    /\ Len(executed) = 1
    /\ executed[1] = NonCallableEntry
    /\ execution_output.error = <<MsgNotCallable, "">>

\* the error kind the claim assigns to a fault class
ClaimedKind(fault) ==
    IF IsInstance(fault, "FileNotFoundError") THEN MsgFileNotFound
    ELSE IF IsInstance(fault, "JSONDecodeError") THEN "MalformedData"
    ELSE IF IsInstance(fault, "KeyError") THEN MsgKey
    ELSE IF IsInstance(fault, "EmptyDataError") THEN MsgEmptyData
    ELSE MsgUnexpected

\* C11: a fault raised by the entry point is caught by the handler of its
\* class and reported under that class's own kind: missing file, JSON decode
\* fault, missing key and empty tabular input each have a kind of their own,
\* and only the remaining faults get the generic kind.
C11_Claim ==
    \A i \in 1..Len(executed) :
        (executed[i].entry = "callable" /\ executed[i].body \in BodyFaults)
        => /\ returned.kind # "raised"
           /\ (pc \in {"respond", "done"}
               => execution_output.error[1] = ClaimedKind(executed[i].body))

\* C12: a text whose lookup entry is absent from the master table yields a
\* failure outcome, also when its entry point handles the absence itself and
\* returns a message (the "patient not found" example).
C12_Claim ==
    \A i \in 1..Len(executed) :
        (executed[i] = Returns("not_found_string") /\ pc \in {"respond", "done"})
        => /\ ~execution_output.success
           /\ execution_output.error # <<"None", "">>

VerdictOnCurrent == pc = "debug" \/ (pc = "execute" /\ run_debugger)

\* C15 as stated: a text the parser rejects gets is_valid = false with the
\* syntax-error kind and a message carrying line and offset, whatever the
\* supplementary setting and the LLM; validate_code runs nothing, so a
\* passing verdict implies the parser accepted the text.
C15_Original ==
    /\ (VerdictOnCurrent /\ ~current_code_to_execute.parses)
       => /\ ~validator_result.is_valid
          /\ validator_result.error_type = "syntax_error"
          /\ validator_result.error_message = MsgSyntaxLineOffset
    /\ \A code \in validated_ok : code.parses
    /\ pc \in {"loop", "validate", "debug"} => (n_execute = 0 /\ n_entry_calls = 0)

\* C15 amended: a text the parser rejects gets is_valid = false with the
\* syntax-error kind, whatever the supplementary setting and the LLM; the
\* message carries line and offset when the parser raised SyntaxError and is
\* the "Error during ast.parse" text when it raised another exception;
\* validate_code runs nothing, so a passing verdict implies the parser
\* accepted the text.
C15_ParserRejectionIsInvalid ==
    /\ (VerdictOnCurrent /\ ~current_code_to_execute.parses)
       => /\ ~validator_result.is_valid
          /\ validator_result.error_type = "syntax_error"
          /\ validator_result.error_message =
                (IF current_code_to_execute.top = "SyntaxError"
                   THEN MsgSyntaxLineOffset ELSE MsgAstParse)
    /\ \A code \in validated_ok : code.parses
    /\ pc \in {"loop", "validate", "debug"} => (n_execute = 0 /\ n_entry_calls = 0)

\* C15 witness: a text with a syntax error was rejected while the
\* supplementary check is enabled
C15_Witness ==
    /\ pc = "debug"
    /\ use_llm
    /\ current_code_to_execute = Unparsable
    /\ validator_result.error_message = MsgSyntaxLineOffset

\* C16: when the parser check fails validate_code returns without any
\* collaborator call, whether or not the supplementary check is enabled; a
\* collaborator call is made only for a text the parser accepted.
C16_NoLLMCallAfterParserFailure ==
    VerdictOnCurrent =>
        /\ ~current_code_to_execute.parses =>
              /\ validator_result.llm_calls = 0
              /\ validator_result.llm_check = <<"Not performed due to syntax error.">>
        /\ validator_result.llm_calls > 0 =>
              (current_code_to_execute.parses /\ use_llm)

\* C16 witness: the parser check failed with the supplementary check enabled
C16_Witness ==
    /\ pc = "debug"
    /\ use_llm
    /\ current_code_to_execute = ParserGivesUp
    /\ validator_result.llm_calls = 0

\* the recorded advisory answer begins with INVALID, in any letter case
BeginsWithINVALID(t) ==
    /\ Len(t) >= 7
    /\ t[1] \in {"I", "i"} /\ t[2] \in {"N", "n"} /\ t[3] \in {"V", "v"}
    /\ t[4] \in {"A", "a"} /\ t[5] \in {"L", "l"} /\ t[6] \in {"I", "i"}
    /\ t[7] \in {"D", "d"}

\* C17: when the parser check passed and the LLM was consulted, an advisory
\* answer beginning with INVALID (case-insensitively) gives is_valid = false
\* with the advisory kind, which is not the syntax-error kind; any other
\* answer leaves is_valid = true.
C17_AdvisoryVerdict ==
    (VerdictOnCurrent /\ validator_result.llm_calls = 1) =>
        IF BeginsWithINVALID(validator_result.llm_check)
          THEN /\ ~validator_result.is_valid
               /\ validator_result.error_type = "llm_identified_issue"
               /\ validator_result.error_type # "syntax_error"
          ELSE /\ validator_result.is_valid
               /\ validator_result.error_type = "absent"

\* C17 witness: an answer in lower case flagged a text the parser accepted
C17_Witness ==
    /\ pc = "debug"
    /\ current_code_to_execute.parses
    /\ validator_result.llm_check = Strip(TextInvalidLower)
    /\ validator_result.error_type = "llm_identified_issue"

PipelineErrorKinds ==
    {"CodeGenerationError", "DebuggingFailed", "ValidationFailedAfterDebug"}

DetailsTexts == {"absent", "", "str(e)", "strerror", "Key", "traceback",
                 "pipeline message"}

C28_ExecutesLastValidatedText ==
    [][(run_debugger /\ n_execute' = n_execute + 1)
       => /\ validator_result.is_valid
          /\ cand_validated
          /\ n_validate >= 1
          /\ executed' = Append(executed, current_code_to_execute)]_vars

\* C28 witness: a repaired text passed its own validation and was executed
C28_Witness ==
    /\ run_debugger
    /\ n_execute = 1
    /\ n_validate = 2
    /\ n_debug = 1
    /\ executed[1] = first_repaired
    /\ validator_result.is_valid

\* C30: when the supplementary check is enabled and the LLM call fails,
\* validate_code returns, for a text the parser accepted, is_valid = true
\* with no failure kind and no message; the failure text is in the advisory
\* field only.
C30_LLMFailureFailsOpen ==
    (VerdictOnCurrent /\ validator_result.llm_check = <<"Error: e">>) =>
        /\ use_llm
        /\ current_code_to_execute.parses
        /\ validator_result.is_valid
        /\ validator_result.error_type = "absent"
        /\ validator_result.error_message = "None"

\* C30 witness: a verdict passed although the LLM call failed
C30_Witness ==
    /\ pc = "execute"
    /\ use_llm
    /\ validator_result.llm_check = <<"Error: e">>
    /\ validator_result.is_valid

\* C21: in every state of a sandboxed execution, what the candidate program
\* has reached is a read of one of the three injected bindings: it reads no
\* other path, writes nothing, and reaches neither the network nor the host
\* process.
C21_Claim ==
    \A r \in reached : r.does = "read" /\ r.on \in InjectedBindings

\* C22: an entry point that does not return is pre-empted: the call returns
\* success = false with the Timeout error kind.
C22_Claim ==
    (Len(steps) > 0 /\ steps[Len(steps)].does = "loop") =>
        /\ sandbox_pc = "returned"
        /\ ~sandbox_result.success
        /\ sandbox_result.error[1] = "Timeout"

\* the value a call returns for the operations s when nothing ran before it
AloneData(s) ==
    LET loads == {j \in 1..Len(s) : s[j].does = "loads"} IN
    IF loads = {} THEN "None"
    ELSE LET last == CHOOSE j \in loads : \A k \in loads : k <= j IN
         IF \E i \in 1..(last - 1) : s[i].does = "rebind"
           THEN "rebound_value" ELSE "rows"

\* C23: executions share no mutable state: a call begins with the capability
\* table as the code builds it, and the value a call returns is the value
\* the same program returns when nothing ran before it.
C23_Claim ==
    /\ (sandbox_pc = "running" /\ steps = <<>>) => json_loads = "original"
    /\ (sandbox_pc = "returned" /\ sandbox_result.raised = "none"
        /\ sandbox_result.success)
       => sandbox_result.data = AloneData(steps)

\* the source types get_connector supports
SupportedSourceTypes ==
    {"bigquery", "postgresql", "firestore", "json", "googlesheet", "mbox"}
\* the connector class named for a source type
ClassFor(source_type_lower) ==
    CASE source_type_lower = "bigquery" -> "BQConnector"
      [] source_type_lower = "postgresql" -> "PgConnector"
      [] source_type_lower = "firestore" -> "FirestoreConnector"
      [] source_type_lower = "json" -> "JsonConnector"
      [] source_type_lower = "googlesheet" -> "GoogleSheetConnector"
      [] source_type_lower = "mbox" -> "MboxConnector"
      [] OTHER -> "none"
\* json_data that is, or parses to, a list or a dict
UsableJsonData ==
    {"str_list", "list", "empty_list", "dict_one_list", "dict_one_empty_list",
     "dict_other"}
\* the call supplies what its source type requires
AllRequiredGiven ==
    IF Lower(source_type) = "json"
      THEN \/ kwargs["file_path"] = "given"
           \/ (Get(kwargs, "file_path") = "None"
               /\ kwargs["json_data"] \in UsableJsonData)
      ELSE MissingArgs(kwargs, RequiredArgs(Lower(source_type))) = {}

\* C24: for every supported source_type, in any letter case, given all of
\* its required arguments, get_connector raises nothing and returns an
\* instance of the corresponding class; for 'json' a JsonConnector of
\* connectorType 'JSON' whose file_path, or parsed json_data_content,
\* reflects the arguments.
C24_Claim ==
    (conn_pc # "start" /\ Lower(source_type) \in SupportedSourceTypes
     /\ AllRequiredGiven)
    => /\ connector.raised = "none"
       /\ connector.cls = ClassFor(Lower(source_type))
       /\ Lower(source_type) = "json" =>
             /\ connector.connectorType = "JSON"
             /\ connector.file_path = Get(kwargs, "file_path")
             /\ kwargs["file_path"] # "given" =>
                   connector.json_data_content =
                       (IF kwargs["json_data"] = "str_list" THEN "list"
                        ELSE kwargs["json_data"])

\* the arguments the claim calls missing
ClaimedMissing ==
    IF Lower(source_type) = "json"
      THEN (IF Get(kwargs, "file_path") = "None" /\ Get(kwargs, "json_data") = "None"
              THEN {"file_path", "json_data"} ELSE {})
      ELSE MissingArgs(kwargs, RequiredArgs(Lower(source_type)))

\* C25: for an unknown source_type, and for a known one with a required
\* argument absent or None (for 'json': neither file_path nor json_data
\* supplied), get_connector raises ValueError naming exactly the missing
\* arguments, before any connector class is called; it raises no other
\* fault for such arguments.
C25_Claim ==
    (conn_pc # "start"
     /\ (Lower(source_type) \notin SupportedSourceTypes \/ ClaimedMissing # {}))
    => /\ connector.raised = "ValueError"
       /\ connector.missing = ClaimedMissing
       /\ ~connector.constructing

\* the table the claim gives for parsed data
ClaimedTable(data) ==
    CASE data \in {"list", "dict_one_list"} -> Table("rows_of_list")
      [] data \in {"empty_list", "dict_one_empty_list"} -> Table("empty")
      [] data = "dict_other" -> Table("one_row")
      [] OTHER -> RetrieveRaises("ValueError")

\* C26: retrieve_df of a JsonConnector made from the arguments gives the
\* table of the normalised source: a list as it is, a dict of one key
\* holding a list as that list, any other dict as one row, an empty list as
\* an empty table, any other type ValueError; a set file_path is read in
\* preference to json_data, a missing file raising FileNotFoundError and
\* undecodable content ValueError.
C26_Claim ==
    (conn_pc # "start" /\ Lower(source_type) = "json" /\ AllRequiredGiven)
    => /\ connector.cls = "JsonConnector"
       /\ connector.raised = "none"
       /\ conn_pc = "retrieved" =>
             df = IF kwargs["file_path"] = "given"
                    THEN (CASE file_state = "missing" -> RetrieveRaises("FileNotFoundError")
                            [] file_state = "undecodable" -> RetrieveRaises("ValueError")
                            [] OTHER -> ClaimedTable(file_state))
                    ELSE ClaimedTable(IF kwargs["json_data"] = "str_list"
                                        THEN "list" ELSE kwargs["json_data"])

\* start_debugger returned: there was no exact match, the builder's SQL was
\* not marked unrelated and the debugger is enabled
DebuggerReturned == debugger_return # NoDebuggerResult

ListedTrySteps ==
    {"history", "rewrite", "source", "embed", "exact", "similar", "build",
     "debug"}

\* C29: _generate_sql never raises: after a fault at a step of its try block
\* the call goes on to return the error message as final_sql with
\* invalid_response = True, and no chat entry is logged.
C29_Claim ==
    fault_step \in ListedTrySteps =>
        /\ run_outcome.kind # "raised"
        /\ ~chat_logged
        /\ sql_pc \in {"log_chat", "done"} =>
              (final_sql = "error text" /\ invalid_response = TRUE)

====
